---- MODULE Spec2Model ----
(***************************************************************************)
(* SwiftRental: the customer REST handlers (POST and GET /customers, GET,  *)
(* PUT and DELETE /customers/{id}), the customer details page and the new- *)
(* and edit-customer forms, over the Customer, Rental and Car tables.      *)
(*                                                                         *)
(* Every `await prisma...` of a handler is one atomic step of the store;   *)
(* the handler's position between two awaits is its pc.  The store obeys   *)
(* the constraints of the migration: the primary keys, the unique index on *)
(* Customer.email and the foreign key Rental.customerId -> Customer.id     *)
(* (ON DELETE RESTRICT).  A Prisma call that violates one of them throws,  *)
(* and the handler's catch block answers 500.                              *)
(*                                                                         *)
(* The columns createdAt and updatedAt are read by no handler and are not  *)
(* part of the rows below.  Rental rows are written by no code of the      *)
(* repository; the Rental actions are the writes the schema admits.        *)
(***************************************************************************)
EXTENDS Integers, FiniteSets, Sequences, TLC

\* ------------------------------------------------------------------ bounds
NumReq == 2
MaxIssued == 2
MaxRentals == 2
MaxTarget == 2
MaxDay == 2

\* ------------------------------------------------------------------ values
\* A JSON property that is absent from the request body.
Undefined == "undefined"
\* SQL NULL / JavaScript null.
Null == "null"

Procs == 1..NumReq
TargetIds == 1..MaxTarget

Emails == {"ada@example.com", "ada@babbage.dev", "grace@example.com"}
EmailsRich == {"ada@example.com", "ada@babbage.dev"}

RentalStatus == {"ACTIVE", "COMPLETED", "CANCELLED"}

\* The Car table.  No modelled operation writes it.
Cars ==
  { [id |-> 1, brand |-> "Fiat", licensePlate |-> "W-1"],
    [id |-> 2, brand |-> "Saab", licensePlate |-> "W-2"] }

\* Rental.startDate, counted in days.
Days == 1..MaxDay

\* The car and start date of a new Rental row: car 1 on day 1 or, where the
\* paths vary, any car on any day.
RentalInputsLean == {[carId |-> 1, startDate |-> 1]}
RentalInputsRich == [carId : {c.id : c \in Cars}, startDate : Days]

\* Response bodies that are not a Customer row.
NoBody == [none |-> TRUE]
SuccessBody == [success |-> TRUE]
\* What notFound() renders.
NotFoundPage == [notFound |-> TRUE]

MsgRequired == "First name, last name and email are required"
MsgEmailExists == "A customer with this email already exists"
MsgOtherEmailExists == "A different customer with this email already exists"
MsgNotFound == "Customer not found"
MsgInvalidId == "Invalid customer ID"
MsgActiveRentals == "Cannot delete customer with active rentals"
MsgWrong == "Something went wrong"

\* What a catch block catches: the rejection of request.json() for a body
\* that is not JSON, and the errors of the store client (unique constraint
\* failed, foreign key constraint failed, record not found).
NoError == "none"
SyntaxError == "SyntaxError: Unexpected token in JSON"
P2002 == "P2002: Unique constraint failed on the fields: (email)"
P2003 == "P2003: Foreign key constraint failed on the field: Rental_customerId_fkey"
P2025 == "P2025: Record to update or delete not found"

\* The {id} segment of a request path, as a sequence of characters.
Digits == <<"0", "1", "2", "3", "4", "5", "6", "7", "8", "9">>

\* The decimal text of a customer id (one digit: ids stay below 10).
ParamOf(id) == <<Digits[id + 1]>>

\* No {id} segment (POST /customers).
NoParam == <<>>

\* The {id} segment is the decimal text of an id or, where the paths vary,
\* also a text that is not: "1a", "a", "0", "-1", " 2".
ParamsLean == {ParamOf(id) : id \in TargetIds}
ParamsRich ==
  ParamsLean \cup {<<"1", "a">>, <<"a">>, <<"0">>, <<"-", "1">>, <<" ", "2">>}

\* The ?q= of GET /customers: absent (searchParams.get gives null), empty,
\* or a text.  Where only the emails vary it is absent.
QueriesLean == {Null}
QueriesRich == {Null, "", "ADA", "opp", "GRACE", "zz"}

\* Request bodies.  Where the bodies vary they vary in every field (phone
\* and address omitted, empty or given; a form left blank sends them as
\* empty strings); elsewhere they differ in the email only.
NoData ==
  [firstName |-> Undefined, lastName |-> Undefined, email |-> Undefined,
   phone |-> Undefined, address |-> Undefined]

ValidBodiesRich ==
  { [firstName |-> n[1], lastName |-> n[2], email |-> e, phone |-> o[1], address |-> o[2]] :
      n \in {<<"Ada", "Lovelace">>, <<"Grace", "Hopper">>},
      e \in EmailsRich,
      o \in {<<Undefined, Undefined>>, <<"", "1 Main St">>, <<"555", Undefined>>,
             <<"555", "">>} }

BaseBody ==
  [firstName |-> "Ada", lastName |-> "Lovelace", email |-> "ada@example.com",
   phone |-> Undefined, address |-> Undefined]

InvalidBodies ==
  { [BaseBody EXCEPT !.firstName = v] : v \in {Undefined, ""} } \cup
  { [BaseBody EXCEPT !.lastName = v] : v \in {Undefined, ""} } \cup
  { [BaseBody EXCEPT !.email = v] : v \in {Undefined, ""} }

\* A request body that is not JSON.
Malformed == [malformed |-> TRUE]

BodiesRich == ValidBodiesRich \cup InvalidBodies \cup {Malformed}

BodiesLean ==
  { [BaseBody EXCEPT !.email = e] : e \in Emails } \cup
  { [BaseBody EXCEPT !.email = Undefined] } \cup {Malformed}

\* ------------------------------------------------------------------- state
VARIABLES
  customers,     \* the Customer table: a set of rows
  nextId,        \* the next value of the sequence behind Customer.id (SERIAL)
  rentals,       \* the Rental table: a set of [id, customerId, status]
  nextRentalId,  \* the next value of the sequence behind Rental.id
  req,           \* per request slot: the request, the handler's pc, the row
                 \* its existence check found, its response, and how
                 \* many store calls (and writes among them) it has awaited
  issued,        \* number of requests received so far
  origin,        \* history: id -> the body that created the row, while no
                 \* later update or delete of that id has been written
  oneAtATime,    \* TRUE: each request is answered before the next one (and
                 \* before any Rental write) starts; FALSE: they interleave
  inputs,        \* what varies in the requests of this behaviour: "emails"
                 \* (the email only), "bodies" (every field of the body and
                 \* the query) or "paths" (the {id} segment, the query and the
                 \* car and start date of the rentals)
  form           \* the browser: the customer form that is open (if any), its
                 \* isSubmitting state and the position of its handleSubmit

vars == <<customers, nextId, rentals, nextRentalId, req, issued, origin, oneAtATime, inputs, form>>

Idle ==
  [kind |-> "none", param |-> NoParam, query |-> Null, malformed |-> FALSE,
   retry |-> FALSE, id |-> 0, data |-> NoData, pc |-> "idle",
   existingCustomer |-> NoBody, error |-> NoError, status |-> 0, message |-> "",
   body |-> NoBody, calls |-> 0, writes |-> 0]

\* No customer form is open in the browser.
NoForm ==
  [page |-> "none", customerId |-> 0, customer |-> Null, isSubmitting |-> FALSE,
   pc |-> "idle", slot |-> 0, shows |-> "nothing", toast |-> "none"]

\* A JavaScript number that is an integer or NaN.
NaN == [nan |-> TRUE, int |-> 0]
isNaN(n) == n.nan

IsDigit(c) == \E i \in 1..Len(Digits) : Digits[i] = c
DigitValue(c) == (CHOOSE i \in 1..Len(Digits) : Digits[i] = c) - 1

RECURSIVE SkipWhiteSpace(_)
SkipWhiteSpace(s) ==
  IF s # <<>> /\ Head(s) = " " THEN SkipWhiteSpace(Tail(s)) ELSE s

\* The longest prefix of s made of decimal digits.
RECURSIVE LeadingDigits(_)
LeadingDigits(s) ==
  IF s = <<>> \/ ~IsDigit(Head(s)) THEN <<>>
  ELSE <<Head(s)>> \o LeadingDigits(Tail(s))

RECURSIVE Decimal(_)
Decimal(ds) ==
  IF ds = <<>> THEN 0
  ELSE 10 * Decimal(SubSeq(ds, 1, Len(ds) - 1)) + DigitValue(ds[Len(ds)])

\* parseInt(s) without a radix, for texts without a 0x prefix: leading white
\* space is skipped, a sign is taken, then the longest run of digits is
\* read and whatever follows it is ignored; NaN when there is no digit.
parseInt(s) ==
  LET t == SkipWhiteSpace(s)
      signed == t # <<>> /\ Head(t) \in {"-", "+"}
      ds == LeadingDigits(IF signed THEN Tail(t) ELSE t) IN
  IF ds = <<>> THEN NaN
  ELSE [nan |-> FALSE,
        int |-> IF t[1] = "-" THEN 0 - Decimal(ds) ELSE Decimal(ds)]

\* JavaScript truthiness of a string-or-undefined property.
Truthy(v) == v \notin {Undefined, ""}

\* `v ?? null`: only an absent property becomes null.
OrNull_nullish(v) == IF v = Undefined THEN Null ELSE v

\* `v || null`
OrNull(v) == IF Truthy(v) THEN v ELSE Null

Bodies == IF inputs = "bodies" THEN BodiesRich ELSE BodiesLean

Params == IF inputs = "paths" THEN ParamsRich ELSE ParamsLean

Queries == IF inputs = "emails" THEN QueriesLean ELSE QueriesRich

RentalInputs == IF inputs = "paths" THEN RentalInputsRich ELSE RentalInputsLean

InFlight(p) == req[p].pc \notin {"idle", "done"}

\* A slot can take a new request.
CanStart(p) ==
  /\ ~InFlight(p)
  /\ issued < MaxIssued
  /\ oneAtATime => (p = 1 /\ \A q \in Procs : ~InFlight(q))

\* The request a handler has just received, at position `label`.
Request(k, param, i, d, label) ==
  [kind |-> k, param |-> param, query |-> Null, malformed |-> FALSE,
   retry |-> FALSE, id |-> i, data |-> d, pc |-> label,
   existingCustomer |-> NoBody, error |-> NoError, status |-> 0, message |-> "",
   body |-> NoBody, calls |-> 0, writes |-> 0]

\* Two requests with the same method, path, query and body.
SameRequest(a, b) ==
  /\ a.kind = b.kind /\ a.param = b.param /\ a.query = b.query
  /\ a.malformed = b.malformed /\ a.data = b.data

\* Slot p takes the request r; `retry` records that r repeats the request
\* the slot has just answered.
Take(p, r) ==
  [req EXCEPT ![p] = [r EXCEPT !.retry = (req[p].pc = "done" /\ SameRequest(req[p], r))]]

\* NextResponse.json(b) without the status option: the status is 200.
Answer_defaultStatus(r, st, msg, b) ==
  [r EXCEPT !.pc = "done", !.status = 200, !.message = msg, !.body = b]

\* NextResponse.json(b, { status: st }): the handler returns.  The body of
\* an error response is { message: msg }; b is the body of a success.
Answer(r, st, msg, b) ==
  [r EXCEPT !.pc = "done", !.status = st, !.message = msg, !.body = b]

\* The request r after one more awaited store call.
Called(r) == [r EXCEPT !.calls = @ + 1]

\* The store call of slot p was a write (create, update or delete).
Written(p, rq) == [rq EXCEPT ![p].writes = @ + 1]

\* The handler returns after the store call it awaited.
Respond(p, st, msg, b) == [req EXCEPT ![p] = Answer(Called(req[p]), st, msg, b)]

\* A catch block that sends the error's text to the caller.
Thrown_detailed(r, error) == [Answer(r, 500, error, NoBody) EXCEPT !.error = error]

\* catch (error) { console.error(..., error); return 500 'Something went
\* wrong' }: the error is logged on the server.
Thrown(r, error) == [Answer(r, 500, MsgWrong, NoBody) EXCEPT !.error = error]

\* A catch block that issues the failed store call again.
Caught_retrying(p, error) == [req EXCEPT ![p] = [Called(req[p]) EXCEPT !.error = error]]

\* The store call of slot p threw: the catch block answers.
Caught(p, error) == [req EXCEPT ![p] = Thrown(Called(req[p]), error)]

\* request.json(): the body as the handler holds it.
Json(body) == IF body = Malformed THEN NoData ELSE body

\* The store call returned and the handler goes on to `label`.
Goto(p, label) == [req EXCEPT ![p] = [Called(req[p]) EXCEPT !.pc = label]]

\* The handler found `row` (existingCustomer) and goes on to `label`.
Found(p, row, label) ==
  [req EXCEPT ![p] = [Called(req[p]) EXCEPT !.pc = label, !.existingCustomer = row]]

At(p, k, label) == req[p].kind = k /\ req[p].pc = label

\* ------------------------------------------------------------------- store
\* The create lookup comparing the wrong column.
CustomerByEmail_wrongColumn(email) == {c \in customers : c.firstName = email}

\* prisma.customer.findUnique({ where: { email } }): the row found, if any.
CustomerByEmail(email) == {c \in customers : c.email = email}

\* prisma.customer.findUnique({ where: { id } }): the row found, if any.
CustomerById(id) == {c \in customers : c.id = id}

\* The duplicate lookup without `id: { not: id }`.
DuplicateEmail_includingSelf(email, id) == {c \in customers : c.email = email}

\* prisma.customer.findFirst({ where: { email, id: { not: id } } })
DuplicateEmail(email, id) == {c \in customers : c.email = email /\ c.id # id}

\* The guard's query with the status filter inverted.
ActiveRentals_inverted(id) == {r \in rentals : r.customerId = id /\ r.status # "ACTIVE"}

\* prisma.rental.findFirst({ where: { customerId: id, status: 'ACTIVE' } })
ActiveRentals(id) == {r \in rentals : r.customerId = id /\ r.status = "ACTIVE"}

\* The characters of the texts that occur as firstName, lastName, email or
\* query.
Chars(s) ==
  CASE s = "Ada" -> <<"A", "d", "a">>
    [] s = "Lovelace" -> <<"L", "o", "v", "e", "l", "a", "c", "e">>
    [] s = "Grace" -> <<"G", "r", "a", "c", "e">>
    [] s = "Hopper" -> <<"H", "o", "p", "p", "e", "r">>
    [] s = "ada@example.com" -> <<"a", "d", "a", "@", "e", "x", "a", "m", "p", "l", "e", ".", "c", "o", "m">>
    [] s = "ada@babbage.dev" -> <<"a", "d", "a", "@", "b", "a", "b", "b", "a", "g", "e", ".", "d", "e", "v">>
    [] s = "grace@example.com" -> <<"g", "r", "a", "c", "e", "@", "e", "x", "a", "m", "p", "l", "e", ".", "c", "o", "m">>
    [] s = "ADA" -> <<"A", "D", "A">>
    [] s = "opp" -> <<"o", "p", "p">>
    [] s = "GRACE" -> <<"G", "R", "A", "C", "E">>
    [] s = "zz" -> <<"z", "z">>
    [] s = "" -> <<>>

UpperCase ==
  <<"A", "B", "C", "D", "E", "F", "G", "H", "I", "J", "K", "L", "M", "N", "O", "P", "Q", "R", "S", "T", "U", "V", "W", "X", "Y", "Z">>
LowerCase ==
  <<"a", "b", "c", "d", "e", "f", "g", "h", "i", "j", "k", "l", "m", "n", "o", "p", "q", "r", "s", "t", "u", "v", "w", "x", "y", "z">>

\* The lower-case form of a character.
ToLower(c) ==
  IF \E i \in 1..Len(UpperCase) : UpperCase[i] = c
    THEN LowerCase[CHOOSE i \in 1..Len(UpperCase) : UpperCase[i] = c]
    ELSE c

Fold(t) == [i \in 1..Len(t) |-> ToLower(t[i])]

\* The text `part` occurs in the text `whole`.
Contains(whole, part) ==
  \E k \in 0..(Len(whole) - Len(part)) : SubSeq(whole, k + 1, k + Len(part)) = part

\* { contains: query } without mode: 'insensitive'.
ContainsInsensitive_exact(field, query) == Contains(Chars(field), Chars(query))

\* { contains: query, mode: 'insensitive' }
ContainsInsensitive(field, query) == Contains(Fold(Chars(field)), Fold(Chars(query)))

\* The `where` of the list: no filter for an absent or empty query (both
\* falsy), otherwise the OR of the three contains.
Where(query, c) ==
  (query # Null /\ query # "") =>
    \/ ContainsInsensitive(c.firstName, query)
    \/ ContainsInsensitive(c.lastName, query)
    \/ ContainsInsensitive(c.email, query)

\* The position of a letter in the alphabet, 0 for any other character.
Rank(c) ==
  IF \E i \in 1..Len(LowerCase) : LowerCase[i] = ToLower(c)
    THEN CHOOSE i \in 1..Len(LowerCase) : LowerCase[i] = ToLower(c)
    ELSE 0

\* The order of two texts in the store's collation (letters by alphabet).
RECURSIVE TextLeq(_, _)
TextLeq(a, b) ==
  IF a = <<>> THEN TRUE
  ELSE IF b = <<>> THEN FALSE
  ELSE IF Rank(Head(a)) # Rank(Head(b)) THEN Rank(Head(a)) < Rank(Head(b))
  ELSE TextLeq(Tail(a), Tail(b))

\* "Rental_carId_fkey": the Car row a Rental references.
CarById(id) == CHOOSE c \in Cars : c.id = id

\* include: { car: true }
WithCar(r) ==
  [id |-> r.id, customerId |-> r.customerId, carId |-> r.carId,
   startDate |-> r.startDate, status |-> r.status, car |-> CarById(r.carId)]

\* The sequences that list every row of the set S once.
Listings(S) ==
  {s \in [1..Cardinality(S) -> S] : \A i, j \in 1..Cardinality(S) : s[i] = s[j] => i = j}

\* The relation read in ascending instead of descending order.
ByStartDateDesc_asc(S) ==
  {s \in Listings(S) : \A i, j \in 1..Len(s) : i < j => s[i].startDate <= s[j].startDate}

\* orderBy: { startDate: 'desc' }: the orders in which the store may return
\* the rows of S (rows with equal startDate come in either order).
ByStartDateDesc(S) ==
  {s \in Listings(S) : \A i, j \in 1..Len(s) : i < j => s[i].startDate >= s[j].startDate}

\* The list in the order in which the rows were found (no orderBy).
ByLastNameAsc_unordered(S) == Listings(S)

\* orderBy: { lastName: 'asc' }: the orders in which the store may return
\* the rows of S (rows with equal lastName come in either order).
ByLastNameAsc(S) ==
  {s \in Listings(S) :
     \A i, j \in 1..Len(s) : i < j => TextLeq(Chars(s[i].lastName), Chars(s[j].lastName))}

\* prisma.customer.findMany({ where, orderBy: { lastName: 'asc' } })
FindMany(query) == ByLastNameAsc({c \in customers : Where(query, c)})

\* prisma.customer.findUnique({ where: { id }, include: { rentals: { include:
\* { car: true }, orderBy: { startDate: 'desc' } } } }): the results the
\* store may return for a stored row c.
WithRentals(c) ==
  { [id |-> c.id, firstName |-> c.firstName, lastName |-> c.lastName,
     email |-> c.email, phone |-> c.phone, address |-> c.address, rentals |-> rs] :
      rs \in ByStartDateDesc({WithCar(r) : r \in {x \in rentals : x.customerId = c.id}}) }

\* A `data` object with `address: data.address` (only the phone goes
\* through `|| null`); an omitted address is stored as NULL by the column.
CustomerData_addressAsSent(id, data) ==
  [id |-> id, firstName |-> data.firstName, lastName |-> data.lastName,
   email |-> data.email, phone |-> OrNull(data.phone),
   address |-> IF data.address = Undefined THEN Null ELSE data.address]

\* The `data` object both writes pass to Prisma, as the row with key id.
CustomerData(id, data) ==
  [id |-> id, firstName |-> data.firstName, lastName |-> data.lastName,
   email |-> data.email, phone |-> OrNull(data.phone),
   address |-> OrNull(data.address)]

\* The Customer table without the unique index on email.
Customer_email_key_absent(tbl, row) == TRUE

\* CREATE UNIQUE INDEX "Customer_email_key": may `row` be written to `tbl`
\* (which no longer holds the row's previous version)?
Customer_email_key(tbl, row) == \A c \in tbl : c.email # row.email

\* The Rental table without the foreign key to Customer.
Rental_customerId_fkey_absent(id) == TRUE

\* "Rental_customerId_fkey" ... ON DELETE RESTRICT: may Customer id be removed?
Rental_customerId_fkey(id) == \A r \in rentals : r.customerId # id

\* A create that numbers the new row one above the highest stored id.
CustomerCreate_maxPlusOne(data) ==
  LET top == IF customers = {} THEN 0
             ELSE CHOOSE n \in {c.id : c \in customers} : \A c \in customers : c.id <= n
      row == CustomerData(top + 1, data) IN
  IF Customer_email_key(customers, row)
    THEN [ok |-> TRUE, table |-> customers \cup {row}, row |-> row, error |-> NoError]
    ELSE [ok |-> FALSE, table |-> customers, row |-> NoBody, error |-> P2002]

\* prisma.customer.create({ data }): the INSERT takes the next value of the
\* id sequence (also when it then fails) and throws on a unique violation.
CustomerCreate(data) ==
  LET row == CustomerData(nextId, data) IN
  IF Customer_email_key(customers, row)
    THEN [ok |-> TRUE, table |-> customers \cup {row}, row |-> row, error |-> NoError]
    ELSE [ok |-> FALSE, table |-> customers, row |-> NoBody, error |-> P2002]

\* An upsert: when no row has the id, the row is created.
CustomerUpdate_upsert(id, data) ==
  LET row == CustomerData(id, data)
      rest == customers \ CustomerById(id) IN
  IF ~Customer_email_key(rest, row)
    THEN [ok |-> FALSE, table |-> customers, row |-> NoBody, error |-> P2002]
    ELSE [ok |-> TRUE, table |-> rest \cup {row}, row |-> row, error |-> NoError]

\* An update that leaves phone and address alone when they are not supplied
\* (Prisma's behaviour for `undefined` instead of `null`).
CustomerUpdate_partial(id, data) ==
  LET old == CHOOSE c \in CustomerById(id) : TRUE
      row == [id |-> id, firstName |-> data.firstName, lastName |-> data.lastName,
              email |-> data.email,
              phone |-> IF Truthy(data.phone) THEN data.phone ELSE old.phone,
              address |-> IF Truthy(data.address) THEN data.address ELSE old.address]
      rest == customers \ CustomerById(id) IN
  IF CustomerById(id) # {} /\ \A c \in rest : c.email # row.email
    THEN [ok |-> TRUE, table |-> rest \cup {row}, row |-> row, error |-> NoError]
    ELSE [ok |-> FALSE, table |-> customers, row |-> NoBody, error |-> P2002]

\* An update made of a DELETE and an INSERT outside a transaction: when the
\* insert fails the old row is gone.
CustomerUpdate_unrolled(id, data) ==
  LET row == CustomerData(id, data)
      rest == customers \ CustomerById(id) IN
  IF CustomerById(id) = {}
    THEN [ok |-> FALSE, table |-> customers, row |-> NoBody, error |-> P2025]
  ELSE IF ~Customer_email_key(rest, row)
    THEN [ok |-> FALSE, table |-> rest, row |-> NoBody, error |-> P2002]
    ELSE [ok |-> TRUE, table |-> rest \cup {row}, row |-> row, error |-> NoError]

\* prisma.customer.update({ where: { id }, data }): throws when no row has
\* the id (record to update not found) and on a unique violation.
CustomerUpdate(id, data) ==
  LET row == CustomerData(id, data)
      rest == customers \ CustomerById(id) IN
  IF CustomerById(id) = {}
    THEN [ok |-> FALSE, table |-> customers, row |-> NoBody, error |-> P2025]
  ELSE IF ~Customer_email_key(rest, row)
    THEN [ok |-> FALSE, table |-> customers, row |-> NoBody, error |-> P2002]
    ELSE [ok |-> TRUE, table |-> rest \cup {row}, row |-> row, error |-> NoError]

\* A delete that does not throw when no row has the id (deleteMany).
CustomerDelete_many(id) ==
  IF ~Rental_customerId_fkey(id)
    THEN [ok |-> FALSE, table |-> customers, row |-> NoBody, error |-> P2003]
    ELSE [ok |-> TRUE, table |-> customers \ CustomerById(id), row |-> NoBody,
          error |-> NoError]

\* A delete whose `where` is { id: { gte: id } }: it removes the rows of the
\* later ids as well.
CustomerDelete_fromId(id) ==
  IF CustomerById(id) = {}
    THEN [ok |-> FALSE, table |-> customers, row |-> NoBody, error |-> P2025]
  ELSE IF ~Rental_customerId_fkey(id)
    THEN [ok |-> FALSE, table |-> customers, row |-> NoBody, error |-> P2003]
    ELSE [ok |-> TRUE, table |-> {c \in customers : c.id < id}, row |-> NoBody,
          error |-> NoError]

\* prisma.customer.delete({ where: { id } }): throws when no row has the id
\* and when a Rental row still references it.
CustomerDelete(id) ==
  IF CustomerById(id) = {}
    THEN [ok |-> FALSE, table |-> customers, row |-> NoBody, error |-> P2025]
  ELSE IF ~Rental_customerId_fkey(id)
    THEN [ok |-> FALSE, table |-> customers, row |-> NoBody, error |-> P2003]
    ELSE [ok |-> TRUE, table |-> customers \ CustomerById(id), row |-> NoBody,
          error |-> NoError]

Forget(id) == {o \in origin : o.id # id}

\* ------------------------------------------------------------------- Init
\* Rows the Customer table may hold when the handlers start: none, or two
\* customers written by earlier creates (ids 1 and 2, distinct emails).
SeedRows ==
  { [id |-> 1, firstName |-> "Ada", lastName |-> "Lovelace",
     email |-> "ada@example.com", phone |-> "555", address |-> "1 Main St"],
    [id |-> 2, firstName |-> "Grace", lastName |-> "Hopper",
     email |-> "ada@babbage.dev", phone |-> Null, address |-> Null] }

InitStore ==
  /\ customers \in {{}, SeedRows}
  /\ nextId = Cardinality(customers) + 1
  /\ rentals = {}
  /\ nextRentalId = MaxRentals
  /\ req = [p \in Procs |-> Idle]
  /\ issued = 0
  /\ origin = {}
  /\ form = NoForm

\* Concurrent requests.  (The Rental id sequence has one value left below
\* the bound: earlier rentals have been removed again.)
Init == InitStore /\ oneAtATime = FALSE /\ inputs = "emails"

\* Requests served one at a time.
InitSeq == InitStore /\ oneAtATime = TRUE /\ inputs = "bodies"

\* The last request, served alone, on a store that holds the two customers
\* and no rental; the Rental id sequence has two values left below the bound.
InitRead ==
  /\ customers = SeedRows
  /\ nextId = Cardinality(SeedRows) + 1
  /\ rentals = {}
  /\ nextRentalId = MaxRentals - 1
  /\ req = [p \in Procs |-> Idle]
  /\ issued = MaxIssued - 1
  /\ origin = {}
  /\ oneAtATime = TRUE
  /\ inputs = "paths"
  /\ form = NoForm

\* ------------------------------------------------- POST /customers (create)
\* A validation that leaves the email out.
Required_namesOnly(data) == Truthy(data.firstName) /\ Truthy(data.lastName)

\* The required fields of a POST or PUT body are all present and non-empty.
Required(data) ==
  Truthy(data.firstName) /\ Truthy(data.lastName) /\ Truthy(data.email)

\* The request slot p receives: kind k, path segment param, parsed id i, the
\* body as sent.
Received(k, param, i, body) ==
  [Request(k, param, i, Json(body), "start") EXCEPT !.malformed = (body = Malformed)]

\* data = await request.json() (a throw is caught: 500) and the validation
\* of the required fields.
POST_Receive(body) ==
  LET r == Received("POST", NoParam, 0, body) IN
  IF body = Malformed
    THEN Thrown(r, SyntaxError)
  ELSE IF ~Required(body)
    THEN Answer(r, 400, MsgRequired, NoBody)
    ELSE [r EXCEPT !.pc = "findUnique"]

\* A POST /customers arrives from any client.
POST_Start(p, body) ==
  /\ CanStart(p)
  /\ issued' = issued + 1
  /\ req' = Take(p, POST_Receive(body))
  /\ UNCHANGED <<customers, nextId, rentals, nextRentalId, origin, oneAtATime, inputs, form>>

\* A create that goes to its write without looking the email up.
POST_FindUnique_skipped(p) ==
  /\ At(p, "POST", "findUnique")
  /\ req' = Goto(p, "create")
  /\ UNCHANGED <<customers, nextId, rentals, nextRentalId, issued, origin, oneAtATime, inputs, form>>

\* existingCustomer = await prisma.customer.findUnique({ where: { email } })
POST_FindUnique(p) ==
  /\ At(p, "POST", "findUnique")
  /\ req' = IF CustomerByEmail(req[p].data.email) # {}
              THEN Respond(p, 400, MsgEmailExists, NoBody)
              ELSE Goto(p, "create")
  /\ UNCHANGED <<customers, nextId, rentals, nextRentalId, issued, origin, oneAtATime, inputs, form>>

\* customer = await prisma.customer.create({ data }); a throw is caught: 500.
POST_Create(p) ==
  /\ At(p, "POST", "create")
  /\ LET r == CustomerCreate(req[p].data) IN
       /\ customers' = r.table
       /\ nextId' = nextId + 1
       /\ req' = Written(p, IF r.ok THEN Respond(p, 201, "", r.row)
                                    ELSE Caught(p, r.error))
       /\ origin' = IF r.ok THEN origin \cup {[id |-> r.row.id, data |-> req[p].data]}
                            ELSE origin
  /\ UNCHANGED <<rentals, nextRentalId, issued, oneAtATime, inputs, form>>

\* ----------------------------------------------------- GET /customers/{id}
\* id = parseInt(params.id); if (isNaN(id)) return 400.
GET_Start(p, param) ==
  /\ CanStart(p)
  /\ issued' = issued + 1
  /\ LET id == parseInt(param) IN
     req' = Take(p,
               IF isNaN(id)
                 THEN Answer(Request("GET", param, 0, NoData, "start"), 400, MsgInvalidId, NoBody)
                 ELSE Request("GET", param, id.int, NoData, "findUnique"))
  /\ UNCHANGED <<customers, nextId, rentals, nextRentalId, origin, oneAtATime, inputs, form>>

\* customer = await prisma.customer.findUnique({ where: { id } })
GET_FindUnique(p) ==
  /\ At(p, "GET", "findUnique")
  /\ req' = IF CustomerById(req[p].id) = {}
              THEN Respond(p, 404, MsgNotFound, NoBody)
              ELSE Respond(p, 200, "", CHOOSE c \in CustomerById(req[p].id) : TRUE)
  /\ UNCHANGED <<customers, nextId, rentals, nextRentalId, issued, origin, oneAtATime, inputs, form>>

\* ----------------------------------------------------- PUT /customers/{id}
\* A PUT that reads and validates the body before it looks at the id.
PUT_Start_bodyFirst(p, param, body) ==
  /\ CanStart(p)
  /\ issued' = issued + 1
  /\ LET id == parseInt(param)
         r == Received("PUT", param, IF isNaN(id) THEN 0 ELSE id.int, body) IN
     req' = Take(p,
               IF body = Malformed
                 THEN Thrown(r, SyntaxError)
               ELSE IF ~Required(body)
                 THEN Answer(r, 400, MsgRequired, NoBody)
               ELSE IF isNaN(id)
                 THEN Answer(r, 400, MsgInvalidId, NoBody)
                 ELSE [r EXCEPT !.pc = "findUnique"])
  /\ UNCHANGED <<customers, nextId, rentals, nextRentalId, origin, oneAtATime, inputs, form>>

\* id = parseInt(params.id); if (isNaN(id)) return 400 (the body is not
\* read); then data = await request.json() (a throw is caught: 500) and the
\* validation of the required fields.
PUT_Receive(param, body) ==
  LET id == parseInt(param)
      r == Received("PUT", param, IF isNaN(id) THEN 0 ELSE id.int, body) IN
  IF isNaN(id)
    THEN Answer(r, 400, MsgInvalidId, NoBody)
  ELSE IF body = Malformed
    THEN Thrown(r, SyntaxError)
  ELSE IF ~Required(body)
    THEN Answer(r, 400, MsgRequired, NoBody)
    ELSE [r EXCEPT !.pc = "findUnique"]

\* A PUT /customers/{id} arrives from any client.
PUT_Start(p, param, body) ==
  /\ CanStart(p)
  /\ issued' = issued + 1
  /\ req' = Take(p, PUT_Receive(param, body))
  /\ UNCHANGED <<customers, nextId, rentals, nextRentalId, origin, oneAtATime, inputs, form>>

\* existingCustomer = await prisma.customer.findUnique({ where: { id } })
PUT_FindUnique(p) ==
  /\ At(p, "PUT", "findUnique")
  /\ req' = IF CustomerById(req[p].id) = {}
              THEN Respond(p, 404, MsgNotFound, NoBody)
              ELSE Found(p, CHOOSE c \in CustomerById(req[p].id) : TRUE, "findFirst")
  /\ UNCHANGED <<customers, nextId, rentals, nextRentalId, issued, origin, oneAtATime, inputs, form>>

\* duplicateEmail = await prisma.customer.findFirst({ where: { email, id: { not: id } } })
PUT_FindFirst(p) ==
  /\ At(p, "PUT", "findFirst")
  /\ req' = IF DuplicateEmail(req[p].data.email, req[p].id) # {}
              THEN Respond(p, 400, MsgOtherEmailExists, NoBody)
              ELSE Goto(p, "update")
  /\ UNCHANGED <<customers, nextId, rentals, nextRentalId, issued, origin, oneAtATime, inputs, form>>

\* updatedCustomer = await prisma.customer.update({ where: { id }, data });
\* a throw is caught: 500.
PUT_Update(p) ==
  /\ At(p, "PUT", "update")
  /\ LET r == CustomerUpdate(req[p].id, req[p].data) IN
       /\ customers' = r.table
       /\ req' = Written(p, IF r.ok THEN Respond(p, 200, "", r.row)
                                    ELSE Caught(p, r.error))
       /\ origin' = IF r.ok THEN Forget(req[p].id) ELSE origin
  /\ UNCHANGED <<nextId, rentals, nextRentalId, issued, oneAtATime, inputs, form>>

\* -------------------------------------------------- DELETE /customers/{id}
\* id = parseInt(params.id); if (isNaN(id)) return 400.
DELETE_Start(p, param) ==
  /\ CanStart(p)
  /\ issued' = issued + 1
  /\ LET id == parseInt(param) IN
     req' = Take(p,
               IF isNaN(id)
                 THEN Answer(Request("DELETE", param, 0, NoData, "start"), 400, MsgInvalidId, NoBody)
                 ELSE Request("DELETE", param, id.int, NoData, "findUnique"))
  /\ UNCHANGED <<customers, nextId, rentals, nextRentalId, origin, oneAtATime, inputs, form>>

\* existingCustomer = await prisma.customer.findUnique({ where: { id } })
DELETE_FindUnique(p) ==
  /\ At(p, "DELETE", "findUnique")
  /\ req' = IF CustomerById(req[p].id) = {}
              THEN Respond(p, 404, MsgNotFound, NoBody)
              ELSE Found(p, CHOOSE c \in CustomerById(req[p].id) : TRUE, "findFirst")
  /\ UNCHANGED <<customers, nextId, rentals, nextRentalId, issued, origin, oneAtATime, inputs, form>>

\* activeRentals = await prisma.rental.findFirst({ where: { customerId, status: 'ACTIVE' } })
DELETE_FindFirst(p) ==
  /\ At(p, "DELETE", "findFirst")
  /\ req' = IF ActiveRentals(req[p].id) # {}
              THEN Respond(p, 400, MsgActiveRentals, NoBody)
              ELSE Goto(p, "delete")
  /\ UNCHANGED <<customers, nextId, rentals, nextRentalId, issued, origin, oneAtATime, inputs, form>>

\* await prisma.customer.delete({ where: { id } }); a throw is caught: 500.
DELETE_Delete(p) ==
  /\ At(p, "DELETE", "delete")
  /\ LET r == CustomerDelete(req[p].id) IN
       /\ customers' = r.table
       /\ req' = Written(p, IF r.ok THEN Respond(p, 200, "", SuccessBody)
                                    ELSE Caught(p, r.error))
       /\ origin' = IF r.ok THEN Forget(req[p].id) ELSE origin
  /\ UNCHANGED <<nextId, rentals, nextRentalId, issued, oneAtATime, inputs, form>>

\* ------------------------------------------------ GET /customers (the list)
\* query = searchParams.get('q')
LIST_Start(p, query) ==
  /\ CanStart(p)
  /\ issued' = issued + 1
  /\ req' = Take(p,
               [Request("LIST", NoParam, 0, NoData, "findMany") EXCEPT !.query = query])
  /\ UNCHANGED <<customers, nextId, rentals, nextRentalId, origin, oneAtATime, inputs, form>>

\* customers = await prisma.customer.findMany({ where, orderBy })
LIST_FindMany(p) ==
  /\ At(p, "LIST", "findMany")
  /\ \E found \in FindMany(req[p].query) : req' = Respond(p, 200, "", found)
  /\ UNCHANGED <<customers, nextId, rentals, nextRentalId, issued, origin, oneAtATime, inputs, form>>

\* ------------------------------------- /dashboard/customers/{id} (the page)
\* customerId = parseInt(params.id); if (isNaN(customerId)) notFound()
CustomerDetailsPage_Start(p, param) ==
  /\ CanStart(p)
  /\ issued' = issued + 1
  /\ LET customerId == parseInt(param) IN
     req' = Take(p,
               IF isNaN(customerId)
                 THEN Answer(Request("PAGE", param, 0, NoData, "start"), 404, "", NotFoundPage)
                 ELSE Request("PAGE", param, customerId.int, NoData, "findUnique"))
  /\ UNCHANGED <<customers, nextId, rentals, nextRentalId, origin, oneAtATime, inputs, form>>

\* customer = await prisma.customer.findUnique({ where, include });
\* if (!customer) notFound(); otherwise the page renders the customer.
CustomerDetailsPage_FindUnique(p) ==
  /\ At(p, "PAGE", "findUnique")
  /\ IF CustomerById(req[p].id) = {}
       THEN req' = Respond(p, 404, "", NotFoundPage)
       ELSE \E customer \in WithRentals(CHOOSE c \in CustomerById(req[p].id) : TRUE) :
              req' = Respond(p, 200, "", customer)
  /\ UNCHANGED <<customers, nextId, rentals, nextRentalId, issued, origin, oneAtATime, inputs, form>>

\* ------------------------------------------------------------ Rental table
\* Rental rows are written outside the customer handlers.
RentalWriteAllowed == oneAtATime => \A p \in Procs : ~InFlight(p)

\* An insert into a Rental table without the foreign key to Customer: any
\* customerId is taken.
Rental_Insert_unchecked(c, in, s) ==
  /\ RentalWriteAllowed
  /\ nextRentalId <= MaxRentals
  /\ \E car \in Cars : car.id = in.carId
  /\ rentals' = rentals \cup {[id |-> nextRentalId, customerId |-> c, carId |-> in.carId,
                               startDate |-> in.startDate, status |-> s]}
  /\ nextRentalId' = nextRentalId + 1
  /\ UNCHANGED <<customers, nextId, req, issued, origin, oneAtATime, inputs, form>>

\* INSERT INTO "Rental": customerId must reference a Customer row and carId
\* a Car row; status defaults to ACTIVE.
Rental_Insert(c, in, s) ==
  /\ RentalWriteAllowed
  /\ nextRentalId <= MaxRentals
  /\ CustomerById(c) # {}
  /\ \E car \in Cars : car.id = in.carId
  /\ rentals' = rentals \cup {[id |-> nextRentalId, customerId |-> c, carId |-> in.carId,
                               startDate |-> in.startDate, status |-> s]}
  /\ nextRentalId' = nextRentalId + 1
  /\ UNCHANGED <<customers, nextId, req, issued, origin, oneAtATime, inputs, form>>

\* UPDATE "Rental" SET status = s
Rental_SetStatus(r, s) ==
  /\ RentalWriteAllowed
  /\ r \in rentals
  /\ s # r.status
  /\ rentals' = (rentals \ {r}) \cup {[r EXCEPT !.status = s]}
  /\ UNCHANGED <<customers, nextId, nextRentalId, req, issued, origin, oneAtATime, inputs, form>>

\* -------------------------------------------------------------------- Next
Next ==
  \/ \E p \in Procs, body \in Bodies : POST_Start(p, body)
  \/ \E p \in Procs : POST_FindUnique(p)
  \/ \E p \in Procs : POST_Create(p)
  \/ \E p \in Procs, param \in Params : GET_Start(p, param)
  \/ \E p \in Procs : GET_FindUnique(p)
  \/ \E p \in Procs, param \in Params, body \in Bodies : PUT_Start(p, param, body)
  \/ \E p \in Procs : PUT_FindUnique(p)
  \/ \E p \in Procs : PUT_FindFirst(p)
  \/ \E p \in Procs : PUT_Update(p)
  \/ \E p \in Procs, param \in Params : DELETE_Start(p, param)
  \/ \E p \in Procs : DELETE_FindUnique(p)
  \/ \E p \in Procs : DELETE_FindFirst(p)
  \/ \E p \in Procs : DELETE_Delete(p)
  \/ \E p \in Procs, query \in Queries : LIST_Start(p, query)
  \/ \E p \in Procs : LIST_FindMany(p)
  \/ \E p \in Procs, param \in Params : CustomerDetailsPage_Start(p, param)
  \/ \E p \in Procs : CustomerDetailsPage_FindUnique(p)
  \/ \E c \in TargetIds, in \in RentalInputs, s \in RentalStatus : Rental_Insert(c, in, s)
  \/ \E r \in rentals, s \in RentalStatus : Rental_SetStatus(r, s)

Spec == Init /\ [][Next]_vars

SpecSeq == InitSeq /\ [][Next]_vars

SpecRead == InitRead /\ [][Next]_vars

\* ------------------------------------- the new-customer and edit forms
\* What handleSubmit reads from the form: every field is a string; the
\* required inputs are not empty (the browser does not submit otherwise), an
\* untouched phone or address is the empty string.  The address is left
\* untouched here.
FormValues ==
  { [firstName |-> "Ada", lastName |-> "Lovelace", email |-> e, phone |-> ph,
     address |-> ""] : e \in EmailsRich, ph \in {"", "555"} }

\* A submit button that is never disabled.
SubmitDisabled_never == FALSE

\* <Button type="submit" disabled={isSubmitting}>
SubmitDisabled == form.isSubmitting

\* A handleSubmit without the finally block.
Finally_absent(f) == [f EXCEPT !.pc = "idle"]

\* finally { setIsSubmitting(false) }: handleSubmit ends.
Finally(f) == [f EXCEPT !.pc = "idle", !.isSubmitting = FALSE]

\* response.ok
Ok(r) == r.status >= 200 /\ r.status <= 299

\* /dashboard/customers/new is opened: the form is rendered.
NewCustomerPage_Open ==
  /\ form.page = "none"
  /\ form' = [NoForm EXCEPT !.page = "new", !.shows = "form"]
  /\ UNCHANGED <<customers, nextId, rentals, nextRentalId, req, issued, origin, oneAtATime, inputs>>

\* /dashboard/customers/{id}/edit is opened: customerId = parseInt(params.id)
\* and fetchCustomer gets the customer (one read of the store by GET
\* /customers/{id}); the form is rendered when it got one, 'Customer not
\* found' otherwise.
EditCustomerPage_Load(param) ==
  /\ form.page = "none"
  /\ LET customerId == parseInt(param)
         found == IF isNaN(customerId) THEN {} ELSE CustomerById(customerId.int) IN
     form' = IF found = {}
               THEN [NoForm EXCEPT !.page = "edit", !.shows = "notFound", !.toast = "Error"]
               ELSE [NoForm EXCEPT !.page = "edit", !.shows = "form",
                                   !.customerId = customerId.int,
                                   !.customer = CHOOSE c \in found : TRUE]
  /\ UNCHANGED <<customers, nextId, rentals, nextRentalId, req, issued, origin, oneAtATime, inputs>>

\* The form is submitted (the button is not disabled): setIsSubmitting(true)
\* and fetch(...) with the form's values as JSON; the request reaches its
\* handler, in slot p.
handleSubmit_Start(p, customerData) ==
  /\ form.shows = "form" /\ ~SubmitDisabled
  /\ CanStart(p)
  /\ issued' = issued + 1
  /\ req' = Take(p, IF form.page = "new"
                      THEN POST_Receive(customerData)
                      ELSE PUT_Receive(ParamOf(form.customerId), customerData))
  /\ form' = [form EXCEPT !.isSubmitting = TRUE, !.pc = "fetch", !.slot = p]
  /\ UNCHANGED <<customers, nextId, rentals, nextRentalId, origin, oneAtATime, inputs>>

\* The response is ok: toast("Success"), router.push(...), finally.
handleSubmit_Ok ==
  /\ form.pc = "fetch"
  /\ req[form.slot].pc = "done" /\ Ok(req[form.slot])
  /\ form' = Finally([form EXCEPT !.toast = "Success", !.shows = "pushed"])
  /\ UNCHANGED <<customers, nextId, rentals, nextRentalId, req, issued, origin, oneAtATime, inputs>>

\* The response is not ok: error = await response.json()
handleSubmit_NotOk ==
  /\ form.pc = "fetch"
  /\ req[form.slot].pc = "done" /\ ~Ok(req[form.slot])
  /\ form' = [form EXCEPT !.pc = "json"]
  /\ UNCHANGED <<customers, nextId, rentals, nextRentalId, req, issued, origin, oneAtATime, inputs>>

\* throw new Error(error.message || ...); catch: toast("Error"); finally.
handleSubmit_Thrown ==
  /\ form.pc = "json"
  /\ form' = Finally([form EXCEPT !.toast = "Error"])
  /\ UNCHANGED <<customers, nextId, rentals, nextRentalId, req, issued, origin, oneAtATime, inputs>>

\* fetch rejects (the connection fails; the handler may still be running):
\* catch: toast("Error"); finally.
handleSubmit_FetchRejected ==
  /\ form.pc = "fetch"
  /\ form' = Finally([form EXCEPT !.toast = "Error"])
  /\ UNCHANGED <<customers, nextId, rentals, nextRentalId, req, issued, origin, oneAtATime, inputs>>

\* The Cancel link is followed; a handleSubmit that is running goes on.
Cancel_Click ==
  /\ form.shows = "form"
  /\ form' = [form EXCEPT !.shows = "left"]
  /\ UNCHANGED <<customers, nextId, rentals, nextRentalId, req, issued, origin, oneAtATime, inputs>>

\* The steps of the handler serving slot p.
Handler(p) ==
  \/ POST_FindUnique(p) \/ POST_Create(p)
  \/ PUT_FindUnique(p) \/ PUT_FindFirst(p) \/ PUT_Update(p)

\* The steps handleSubmit takes once the response has arrived.
Settle == handleSubmit_Ok \/ handleSubmit_NotOk \/ handleSubmit_Thrown

NextForm ==
  \/ NewCustomerPage_Open
  \/ \E param \in ParamsLean : EditCustomerPage_Load(param)
  \/ \E p \in Procs, customerData \in FormValues : handleSubmit_Start(p, customerData)
  \/ handleSubmit_Ok
  \/ handleSubmit_NotOk
  \/ handleSubmit_Thrown
  \/ handleSubmit_FetchRejected
  \/ Cancel_Click
  \/ \E p \in Procs : POST_FindUnique(p)
  \/ \E p \in Procs : POST_Create(p)
  \/ \E p \in Procs : PUT_FindUnique(p)
  \/ \E p \in Procs : PUT_FindFirst(p)
  \/ \E p \in Procs : PUT_Update(p)

\* One browser with one form, and the handlers its requests reach.  Every
\* awaited store call returns and every response that has been sent is
\* received (unless the connection fails first).
SpecForm ==
  /\ Init
  /\ [][NextForm]_vars
  /\ \A p \in Procs : WF_vars(Handler(p))
  /\ WF_vars(Settle)

TypeOK ==
  /\ nextId \in 1..(MaxIssued + 3)
  /\ issued \in 0..MaxIssued
  /\ \A c \in customers : c.id \in 1..(nextId - 1)
  /\ \A r \in rentals : r.status \in RentalStatus

\* ================================================================== claims
\* What the claims say of a state, stated on the tables themselves.
Exists(id) == \E c \in customers : c.id = id
Holder(email) == {c.id : c \in {d \in customers : d.email = email}}
HasActiveRental(id) == \E r \in rentals : r.customerId = id /\ r.status = "ACTIVE"
HasRental(id) == \E r \in rentals : r.customerId = id
Done(p, k) == req[p].kind = k /\ req[p].pc = "done"
\* In this step the handler of slot p, serving a request of kind k, returns.
Returns(p, k) ==
  \/ req[p].kind = k /\ InFlight(p) /\ req'[p].pc = "done"
  \/ ~InFlight(p) /\ req'[p] # req[p] /\ req'[p].kind = k /\ req'[p].pc = "done"
TablesUnchanged == customers' = customers /\ rentals' = rentals

\* C1: in every reachable state, under any interleaving of POST, PUT and
\* DELETE requests, no two Customer rows hold the same email.
C1_EmailUnique == \A c, d \in customers : c.email = d.email => c = d

\* C1 witness: a create that passed its lookup was stopped by the store (its
\* write would have duplicated the email that one row holds).
C1_Witness ==
  \E p \in Procs :
    /\ Done(p, "POST") /\ req[p].status = 500
    /\ Cardinality(Holder(req[p].data.email)) = 1

\* C2: two creates carrying the same email end with one 201 and one 400
\* 'A customer with this email already exists'; the loser is never answered
\* 500.  (A second 201 is a create that ran after the row had been deleted.)
C2_TwoCreates ==
  \A p, q \in Procs :
    (/\ p # q
     /\ Done(p, "POST") /\ Done(q, "POST")
     /\ req[p].data.email = req[q].data.email
     /\ req[p].status = 201)
    => \/ req[q].status = 400 /\ req[q].message = MsgEmailExists
       \/ req[q].status = 201

\* C3: in no interleaving of DELETE with Rental writes is a Customer row
\* removed while a Rental with status ACTIVE references it.
C3_NoActiveRentalOrphaned ==
  \A r \in rentals : r.status = "ACTIVE" => Exists(r.customerId)

\* C3 witness: a DELETE passed its active-rental guard, a rental of that
\* customer became ACTIVE before the delete call, and the delete was refused.
C3_Witness ==
  \E p \in Procs :
    /\ Done(p, "DELETE") /\ req[p].status = 500
    /\ HasActiveRental(req[p].id)

\* C4: a DELETE of an existing customer with an ACTIVE rental is answered
\* 400 'Cannot delete customer with active rentals', and no step of it
\* changes the Customer or Rental table (the customer stays retrievable).
C4_ActiveRentalBlocksDelete ==
  [][\A p \in Procs :
       (/\ req[p].kind = "DELETE" /\ InFlight(p) /\ req'[p] # req[p]
        /\ Exists(req[p].id) /\ HasActiveRental(req[p].id))
       => /\ TablesUnchanged
          /\ Exists(req[p].id)'
          /\ req'[p].pc = "done" =>
               req'[p].status = 400 /\ req'[p].message = MsgActiveRentals]_vars

\* C4 witness: a DELETE was refused with the message while the customer and
\* its ACTIVE rental are stored.
C4_Witness ==
  \E p \in Procs :
    /\ Done(p, "DELETE") /\ req[p].status = 400 /\ req[p].message = MsgActiveRentals
    /\ Exists(req[p].id) /\ HasActiveRental(req[p].id)

\* C5: a DELETE of an existing customer with no rentals, or only COMPLETED
\* or CANCELLED ones, is answered 200 {success:true} and removes the row.
C5_DeleteWithoutActiveRental ==
  [][\A p \in Procs :
       (/\ Returns(p, "DELETE")
        /\ Exists(req[p].id) /\ ~HasActiveRental(req[p].id))
       => /\ req'[p].status = 200 /\ req'[p].body = SuccessBody
          /\ ~Exists(req[p].id)']_vars

\* C6: a PUT with all required fields on an existing customer succeeds when
\* no customer with another id holds the email, is answered 400 (conflict)
\* when one does, and always succeeds when the email is the customer's own.
C6_UpdateEmailRule ==
  [][\A p \in Procs :
       (/\ Returns(p, "PUT")
        /\ Required(req'[p].data) /\ Exists(req'[p].id))
       => LET id == req'[p].id
              E == req'[p].data.email IN
          /\ (Holder(E) \ {id} = {}) =>
               /\ req'[p].status = 200
               /\ \E c \in customers' : c.id = id /\ c.email = E /\ req'[p].body = c
          /\ (Holder(E) \ {id} # {}) =>
               /\ req'[p].status = 400 /\ req'[p].message = MsgOtherEmailExists
               /\ TablesUnchanged
          /\ (id \in Holder(E)) => req'[p].status = 200]_vars

\* C6 witness: an update was refused because another customer holds the email.
C6_Witness ==
  \E p \in Procs :
    /\ Done(p, "PUT") /\ req[p].status = 400 /\ req[p].message = MsgOtherEmailExists
    /\ Exists(req[p].id) /\ Holder(req[p].data.email) \ {req[p].id} # {}

\* C7: of two concurrent updates of two different customers to an email E
\* that neither of them held (and that no one else held when the second
\* looked for a duplicate), once the first has succeeded the second does not
\* succeed and is answered 400 (conflict).
C7_ConcurrentUpdates ==
  [][\A p, q \in Procs :
       (/\ p # q
        /\ Done(p, "PUT") /\ req[p].status = 200
        /\ req[q].kind = "PUT" /\ InFlight(q) /\ req'[q].pc = "done"
        /\ req[q].data.email = req[p].data.email
        /\ req[q].id # req[p].id
        /\ Holder(req[p].data.email) = {req[p].id}
        /\ req[p].existingCustomer.email # req[p].data.email
        /\ req[q].pc = "update"
        /\ req[q].existingCustomer.email # req[q].data.email
        /\ Exists(req[q].id))
       => /\ req'[q].status = 400
          /\ req'[q].message = MsgOtherEmailExists]_vars

\* C8: a create with a held email is answered 400 'A customer with this
\* email already exists' and adds no row; one with firstName, lastName or
\* email missing or empty is answered 400 and adds no row; any other adds
\* exactly one row, with an id no stored row has, and returns it with 201.
\* (A create is a POST whose body is JSON.)
C8_CreateOutcome ==
  [][\A p \in Procs :
       /\ (req'[p] # req[p] /\ req'[p].kind = "POST" /\ req'[p].pc # "done")
            => customers' = customers
       /\ (Returns(p, "POST") /\ ~req'[p].malformed) =>
            LET d == req'[p].data IN
            /\ ~Required(d) =>
                 /\ req'[p].status = 400 /\ req'[p].message = MsgRequired
                 /\ customers' = customers
            /\ (Required(d) /\ Holder(d.email) # {}) =>
                 /\ req'[p].status = 400 /\ req'[p].message = MsgEmailExists
                 /\ customers' = customers
            /\ (Required(d) /\ Holder(d.email) = {}) =>
                 /\ req'[p].status = 201
                 /\ \E row \in customers' :
                      /\ ~Exists(row.id)
                      /\ customers' = customers \cup {row}
                      /\ row.email = d.email
                      /\ req'[p].body = row]_vars

\* C8 witness: a create was refused because its email is held.
C8_Witness ==
  \E p \in Procs :
    /\ Done(p, "POST") /\ req[p].status = 400 /\ req[p].message = MsgEmailExists
    /\ Holder(req[p].data.email) # {}

\* C9: a successful update writes firstName, lastName and email as supplied
\* and sets phone and address to null when they are not supplied; the other
\* rows are untouched.
C9_UpdateOverwrites ==
  [][\A p \in Procs :
       (Returns(p, "PUT") /\ req'[p].status = 200)
       => LET d == req'[p].data
              id == req'[p].id IN
          \E c \in customers' :
            /\ c.id = id
            /\ {x \in customers' : x.id = id} = {c}
            /\ {x \in customers' : x.id # id} = {x \in customers : x.id # id}
            /\ c.firstName = d.firstName /\ c.lastName = d.lastName
            /\ c.email = d.email
            /\ d.phone = Undefined => c.phone = Null
            /\ d.address = Undefined => c.address = Null
            /\ (d.phone \notin {Undefined, ""}) => c.phone = d.phone
            /\ (d.address \notin {Undefined, ""}) => c.address = d.address
            /\ req'[p].body = c]_vars

\* C9 witness: an update that supplied neither phone nor address succeeded
\* on a row that held both, and the stored row holds null in both.
C9_Witness ==
  \E p \in Procs :
    /\ Done(p, "PUT") /\ req[p].status = 200
    /\ req[p].data.phone = Undefined /\ req[p].data.address = Undefined
    /\ req[p].existingCustomer.phone = "555"
    /\ req[p].existingCustomer.address = "1 Main St"
    /\ \E c \in customers : c.id = req[p].id /\ c.phone = Null /\ c.address = Null
    /\ req[p].body \in customers

\* An optional input field and the field of the record returned for it: an
\* omitted field is the absent value.
SameOptional(in, out) == IF in = Undefined THEN out = Null ELSE out = in
\* The same, an empty string counting as omitted.
SameOptionalOrEmpty(in, out) == IF in \in {Undefined, ""} THEN out = Null ELSE out = in

\* The GET of slot p returns, for a customer created from body o.data and
\* neither updated nor deleted since.
GetsCreated(p, o) == Returns(p, "GET") /\ o \in origin /\ o.id = req'[p].id

\* C10 as stated: create, then get of the returned id with no update or
\* delete of it in between, returns firstName, lastName, email, phone and
\* address equal to the input, with the generated id.
C10_CreateThenGet_AsStated ==
  [][\A p \in Procs : \A o \in origin :
       GetsCreated(p, o)
       => /\ req'[p].status = 200
          /\ req'[p].body.id = o.id
          /\ req'[p].body.firstName = o.data.firstName
          /\ req'[p].body.lastName = o.data.lastName
          /\ req'[p].body.email = o.data.email
          /\ SameOptional(o.data.phone, req'[p].body.phone)
          /\ SameOptional(o.data.address, req'[p].body.address)]_vars

\* C10 amended: the same, except that a phone or address given as the empty
\* string is returned as null.
C10_CreateThenGet ==
  [][\A p \in Procs : \A o \in origin :
       GetsCreated(p, o)
       => /\ req'[p].status = 200
          /\ req'[p].body.id = o.id
          /\ req'[p].body.firstName = o.data.firstName
          /\ req'[p].body.lastName = o.data.lastName
          /\ req'[p].body.email = o.data.email
          /\ SameOptionalOrEmpty(o.data.phone, req'[p].body.phone)
          /\ SameOptionalOrEmpty(o.data.address, req'[p].body.address)]_vars

\* C10 witness: a get answered 200 for a customer created with phone "" and
\* an address, untouched since; the record holds null and the address.
C10_Witness ==
  \E p \in Procs : \E o \in origin :
    /\ Done(p, "GET") /\ req[p].status = 200 /\ req[p].id = o.id
    /\ o.data.phone = "" /\ req[p].body.phone = Null
    /\ o.data.address = "1 Main St" /\ req[p].body.address = "1 Main St"
    /\ req[p].body \in customers

\* The handler of slot p is at its existence check or, having passed it, at
\* its write.
AtCheckOrWrite(p) == req[p].pc \in {"findUnique", "update", "delete"}

\* C11: a GET, PUT (with the required fields) or DELETE on an id no Customer
\* row has is answered 404 'Customer not found' and changes neither table,
\* at the handler's existence check and also at its write, when the row was
\* removed by a concurrent delete after the existence check.
C11_NotFound ==
  [][\A p \in Procs :
       (/\ req[p].kind \in {"GET", "PUT", "DELETE"}
        /\ AtCheckOrWrite(p) /\ req'[p].pc = "done"
        /\ ~Exists(req[p].id))
       => /\ req'[p].status = 404 /\ req'[p].message = MsgNotFound
          /\ TablesUnchanged]_vars

\* A text that is the decimal numeral of a positive integer: digits only,
\* at least one of them not "0".
PositiveInteger(param) ==
  /\ param # <<>>
  /\ \A i \in 1..Len(param) : param[i] \in {Digits[j] : j \in 1..Len(Digits)}
  /\ \E i \in 1..Len(param) : param[i] # "0"

\* In this step slot p receives a request (the handler runs up to its first
\* store call, or returns before it).
Receives(p) == ~InFlight(p) /\ req'[p] # req[p]

\* C12: a GET, PUT or DELETE whose {id} is not the numeral of a positive
\* integer (other text, trailing non-digits, zero, negative) is answered
\* 400 when it is received, before any store call.
C12_InvalidIdRejected ==
  [][\A p \in Procs :
       (/\ Receives(p)
        /\ req'[p].kind \in {"GET", "PUT", "DELETE"}
        /\ ~PositiveInteger(req'[p].param))
       => req'[p].pc = "done" /\ req'[p].status = 400]_vars

\* The response body b carries, under `rentals`, every Rental row of customer
\* id exactly once, newest start date first, each with the Car row it
\* references.
CarriesRentals(b, id) ==
  /\ "rentals" \in DOMAIN b
  /\ LET rs == b.rentals
         mine == {r \in rentals : r.customerId = id} IN
     /\ Len(rs) = Cardinality(mine)
     /\ \A r \in mine : \E i \in 1..Len(rs) :
          /\ rs[i].id = r.id /\ rs[i].status = r.status
          /\ rs[i].startDate = r.startDate /\ rs[i].carId = r.carId
     /\ \A i, j \in 1..Len(rs) : i < j => rs[i].startDate >= rs[j].startDate
     /\ \A i \in 1..Len(rs) : rs[i].car \in Cars /\ rs[i].car.id = rs[i].carId

\* The response body b carries the fields of the Customer row of id.
CarriesCustomer(b, id) ==
  \E c \in customers :
    /\ c.id = id /\ b.id = id
    /\ b.firstName = c.firstName /\ b.lastName = c.lastName /\ b.email = c.email
    /\ b.phone = c.phone /\ b.address = c.address

\* C13 as stated: every get of an existing customer, by GET /customers/{id}
\* as by the details page, returns the customer record together with all its
\* rentals, newest start date first, each joined with its Car.
C13_GetWithRentals_AsStated ==
  [][\A p \in Procs :
       ((Returns(p, "GET") \/ Returns(p, "PAGE")) /\ Exists(req'[p].id))
       => /\ req'[p].status = 200
          /\ CarriesCustomer(req'[p].body, req'[p].id)
          /\ CarriesRentals(req'[p].body, req'[p].id)]_vars

\* C13 amended: the details page's get returns the customer record together
\* with all its rentals, newest start date first, each joined with its Car;
\* GET /customers/{id} returns the customer record alone.
C13_GetWithRentals ==
  [][\A p \in Procs :
       /\ (Returns(p, "PAGE") /\ Exists(req'[p].id))
          => /\ req'[p].status = 200
             /\ CarriesCustomer(req'[p].body, req'[p].id)
             /\ CarriesRentals(req'[p].body, req'[p].id)
       /\ (Returns(p, "GET") /\ Exists(req'[p].id))
          => /\ req'[p].status = 200
             /\ req'[p].body \in customers]_vars

\* C13 witness: the details page returned a customer with two rentals of
\* different start dates and different cars, the later one first.
C13_Witness ==
  \E p \in Procs :
    /\ Done(p, "PAGE") /\ req[p].status = 200
    /\ Len(req[p].body.rentals) = 2
    /\ req[p].body.rentals[1].startDate > req[p].body.rentals[2].startDate
    /\ req[p].body.rentals[1].id < req[p].body.rentals[2].id
    /\ req[p].body.rentals[1].car # req[p].body.rentals[2].car

\* Two characters that are equal, or the upper- and lower-case form of one
\* letter.
SameLetter(a, b) ==
  a = b \/ \E i \in 1..Len(UpperCase) : {a, b} = {UpperCase[i], LowerCase[i]}

\* q is a substring of the text f, case ignored.
OccursIgnoringCase(q, f) ==
  LET qs == Chars(q)
      fs == Chars(f) IN
  \E k \in 0..(Len(fs) - Len(qs)) : \A i \in 1..Len(qs) : SameLetter(qs[i], fs[k + i])

Matches(c, q) ==
  \/ OccursIgnoringCase(q, c.firstName)
  \/ OccursIgnoringCase(q, c.lastName)
  \/ OccursIgnoringCase(q, c.email)

\* The sequence b lists exactly the rows of S, each once.
ListsExactly(b, S) ==
  /\ Len(b) = Cardinality(S)
  /\ \A c \in S : \E i \in 1..Len(b) : b[i] = c

OrderedByLastName(b) ==
  \A i, j \in 1..Len(b) : i < j => TextLeq(Chars(b[i].lastName), Chars(b[j].lastName))

\* C14: a list with a non-empty q returns exactly the customers for which q
\* is a case-insensitive substring of firstName, lastName or email, and every
\* list result is ordered by lastName ascending.
C14_ListFilter ==
  [][\A p \in Procs :
       Returns(p, "LIST")
       => /\ req'[p].status = 200
          /\ OrderedByLastName(req'[p].body)
          /\ (req'[p].query \notin {Null, ""}) =>
               ListsExactly(req'[p].body, {c \in customers : Matches(c, req'[p].query)})]_vars

\* C14 witness: of two stored customers the list for "GRACE" returned the
\* one whose firstName is "Grace", and only that one.
C14_Witness ==
  \E p \in Procs :
    /\ Done(p, "LIST") /\ req[p].status = 200 /\ req[p].query = "GRACE"
    /\ Cardinality(customers) = 2
    /\ Len(req[p].body) = 1
    /\ req[p].body[1].firstName = "Grace" /\ req[p].body[1] \in customers

\* C15: a list with the empty q and a list without q return what an
\* unfiltered listing returns: every stored Customer row, once, ordered by
\* lastName ascending.
C15_ListUnfiltered ==
  [][\A p \in Procs :
       (Returns(p, "LIST") /\ req'[p].query \in {Null, ""})
       => /\ req'[p].status = 200
          /\ ListsExactly(req'[p].body, customers)
          /\ OrderedByLastName(req'[p].body)]_vars

\* C15 witness: the list for the empty q returned both stored customers,
\* Hopper before Lovelace.
C15_Witness ==
  \E p \in Procs :
    /\ Done(p, "LIST") /\ req[p].status = 200 /\ req[p].query = ""
    /\ Len(req[p].body) = 2 /\ Cardinality(customers) = 2
    /\ req[p].body[1].lastName = "Hopper" /\ req[p].body[2].lastName = "Lovelace"
    /\ \A c \in customers : c = req[p].body[1] \/ c = req[p].body[2]

\* The kinds of request served by the customer endpoints.
Endpoints == {"POST", "LIST", "GET", "PUT", "DELETE"}

ValidationMessages == {MsgRequired, MsgInvalidId}
ConflictMessages == {MsgEmailExists, MsgOtherEmailExists, MsgActiveRentals}

\* The response r is an error response of status st: its body is
\* { message } with a message of the set M.
ErrorResponse(r, st, M) == r.status = st /\ r.message \in M /\ r.body = NoBody

\* The response r is a success of status st: it has no message and its body
\* is a Customer record, a list of them, or { success: true }.
SuccessResponse(r, st) ==
  r.status = st /\ r.message = "" /\ (r.kind = "LIST" \/ r.body # NoBody)

\* C16: every response of the customer endpoints is a success with 200 (201
\* for a create), or an error whose body is { message } with 400 for a
\* validation or conflict message, 404 for 'Customer not found' and 500 for
\* any other failure.
C16_StatusMapping ==
  \A p \in Procs :
    (req[p].pc = "done" /\ req[p].kind \in Endpoints)
    => \/ SuccessResponse(req[p], IF req[p].kind = "POST" THEN 201 ELSE 200)
            /\ req[p].error = NoError
       \/ ErrorResponse(req[p], 400, ValidationMessages \cup ConflictMessages)
            /\ req[p].error = NoError
       \/ ErrorResponse(req[p], 404, {MsgNotFound}) /\ req[p].error = NoError
       \/ ErrorResponse(req[p], 500, {MsgWrong}) /\ req[p].error # NoError

\* C16 witness: one request was answered 400 for a conflict, another 500
\* after its store call threw.
C16_Witness ==
  \E p, q \in Procs :
    /\ Done(p, "PUT") /\ req[p].status = 400 /\ req[p].message = MsgOtherEmailExists
    /\ Done(q, "DELETE") /\ req[q].status = 500 /\ req[q].error = P2003

\* C17: any two responses of status 500, of whatever handler and whatever
\* the error caught, carry the same body, { message: 'Something went wrong' }.
C17_NoLeak ==
  \A p, q \in Procs :
    (/\ req[p].pc = "done" /\ req[p].status = 500
     /\ req[q].pc = "done" /\ req[q].status = 500)
    => /\ req[p].message = req[q].message /\ req[p].body = req[q].body
       /\ req[p].message = MsgWrong /\ req[p].body = NoBody

\* C17 witness: two handlers answered 500 after catching different errors.
C17_Witness ==
  \E p, q \in Procs :
    /\ req[p].pc = "done" /\ req[p].status = 500
    /\ req[q].pc = "done" /\ req[q].status = 500
    /\ req[p].kind # req[q].kind
    /\ req[p].error # req[q].error
    /\ req[p].error # NoError /\ req[q].error # NoError

\* C18: a POST or PUT (with a numeric id) whose body is not JSON, or lacks a
\* required field, is answered 400, never 500.
C18_MalformedInput ==
  [][\A p \in Procs :
       (/\ Receives(p)
        /\ req'[p].kind \in {"POST", "PUT"}
        /\ req'[p].kind = "PUT" => ~isNaN(parseInt(req'[p].param))
        /\ req'[p].malformed \/ ~Required(req'[p].data))
       => req'[p].pc = "done" /\ req'[p].status = 400]_vars

Writes == {"POST", "PUT", "DELETE"}

\* C19: a create, update or delete request that ends with status 400, 404
\* or 500 leaves the Customer table as it was: none of its steps adds,
\* changes or removes a row (only the step that returns 200 or 201 writes).
C19_ErrorFrame ==
  [][\A p \in Procs :
       (req'[p] # req[p] /\ req'[p].kind \in Writes)
       => \/ customers' = customers
          \/ req'[p].pc = "done" /\ req'[p].status \in {200, 201}]_vars

\* C19 witness: an update was refused by the store at its write (the email
\* had been taken after the handler's lookup) and the row it was to replace
\* is stored as the handler had found it.
C19_Witness ==
  \E p \in Procs :
    /\ Done(p, "PUT") /\ req[p].status = 500 /\ req[p].error = P2002
    /\ req[p].existingCustomer \in customers
    /\ req[p].existingCustomer.email # req[p].data.email

\* C20: a create, update or delete that repeats the request just answered
\* (nothing else served in between) leaves the store, the id sequence
\* included, as the first one left it: the repeated create adds no second
\* row and the repeated delete removes nothing further.
C20_RetryIdempotent ==
  [][\A p \in Procs :
       (req'[p] # req[p] /\ req'[p].kind \in Writes /\ req'[p].retry)
       => /\ customers' = customers /\ rentals' = rentals
          /\ nextId' = nextId /\ nextRentalId' = nextRentalId]_vars

\* C20 witness: a create was repeated after it had succeeded; the second
\* was refused and the email is held by the one row the first created.
C20_Witness ==
  \E p \in Procs :
    /\ Done(p, "POST") /\ req[p].retry
    /\ req[p].status = 400 /\ req[p].message = MsgEmailExists
    /\ \E o \in origin : o.data = req[p].data /\ Holder(req[p].data.email) = {o.id}

\* C21: within one request a handler issues at most one write (create,
\* update or delete); when a store call fails the handler responds in that
\* step, and between that response and the next request the slot issues no
\* further store call.
C21_NoRetry ==
  [][\A p \in Procs :
       /\ req'[p].writes <= 1
       /\ (req'[p].error # NoError) => req'[p].pc = "done"
       /\ (req[p].error # NoError /\ req'[p] # req[p]) => Receives(p)]_vars

\* C21 witness: two creates each made their one write; the store refused
\* one of them, which was answered 500 after that call, its second.
C21_Witness ==
  \E p, q \in Procs :
    /\ Done(p, "POST") /\ req[p].error = P2002
    /\ req[p].calls = 2 /\ req[p].writes = 1 /\ req[p].status = 500
    /\ Done(q, "POST") /\ req[q].status = 201
    /\ req[q].calls = 2 /\ req[q].writes = 1

\* What a GET, PUT or DELETE request r returns, and the Customer table it
\* leaves, when it is served alone on the table tbl while no Rental row is
\* stored.
Alone(tbl, r) ==
  LET rows == {c \in tbl : c.id = r.id}
      refused(st, msg) == [status |-> st, message |-> msg, body |-> NoBody, table |-> tbl]
      row == CustomerData(r.id, r.data) IN
  CASE r.kind = "GET" ->
         IF rows = {} THEN refused(404, MsgNotFound)
         ELSE [status |-> 200, message |-> "", body |-> CHOOSE c \in rows : TRUE,
               table |-> tbl]
    [] r.kind = "PUT" ->
         IF r.malformed THEN refused(500, MsgWrong)
         ELSE IF ~Required(r.data) THEN refused(400, MsgRequired)
         ELSE IF rows = {} THEN refused(404, MsgNotFound)
         ELSE IF \E c \in tbl : c.email = r.data.email /\ c.id # r.id
           THEN refused(400, MsgOtherEmailExists)
         ELSE [status |-> 200, message |-> "", body |-> row,
               table |-> (tbl \ rows) \cup {row}]
    [] r.kind = "DELETE" ->
         IF rows = {} THEN refused(404, MsgNotFound)
         ELSE [status |-> 200, message |-> "", body |-> SuccessBody,
               table |-> tbl \ rows]

\* The request a, then the request b, each served alone, starting on tbl.
OneAfterTheOther(tbl, a, b) ==
  LET first == Alone(tbl, a)
      second == Alone(first.table, b) IN
  [first |-> first, second |-> second, table |-> second.table]

\* The response of the request r is the response x.
Answered(r, x) == r.status = x.status /\ r.message = x.message /\ r.body = x.body

\* The slots p and q have answered the only two requests received, both on
\* customer ids, and no Rental row has been written.
OnlyPair(p, q) ==
  /\ p # q /\ issued = 2
  /\ req[p].pc = "done" /\ req[p].kind \in {"GET", "PUT", "DELETE"}
  /\ req[q].pc = "done" /\ req[q].kind \in {"GET", "PUT", "DELETE"}
  /\ rentals = {} /\ nextRentalId = MaxRentals

\* The Customer table before the first request, in a state that no create
\* has led to (the id sequence is where it started).
TableAtStart == IF nextId = 1 THEN {} ELSE SeedRows

\* The responses and the table are those of serving a, then b, on tbl.
AsIfServed(tbl, a, b) ==
  LET run == OneAfterTheOther(tbl, a, b) IN
  Answered(a, run.first) /\ Answered(b, run.second) /\ customers = run.table

\* The emails a write request involves on tbl: the one its target row holds
\* and, for an update, the one it carries.
EmailsOf(tbl, r) ==
  IF r.kind = "GET" THEN {}
  ELSE {c.email : c \in {d \in tbl : d.id = r.id}} \cup
       (IF r.kind = "PUT" /\ ~r.malformed THEN {r.data.email} ELSE {})

\* C22 as stated: two concurrent requests on different customer ids end, in
\* every interleaving, with the responses and the table of serving them one
\* after the other, in either order.
C22_Independent_AsStated ==
  \A p, q \in Procs :
    (OnlyPair(p, q) /\ req[p].id # req[q].id)
    => /\ AsIfServed(TableAtStart, req[p], req[q])
       /\ AsIfServed(TableAtStart, req[q], req[p])

\* C22 amended: the same, for two requests on different customer ids that
\* involve no common email (the unique index on email couples the ids).
C22_Independent ==
  \A p, q \in Procs :
    (/\ OnlyPair(p, q) /\ req[p].id # req[q].id
     /\ EmailsOf(TableAtStart, req[p]) \cap EmailsOf(TableAtStart, req[q]) = {})
    => /\ AsIfServed(TableAtStart, req[p], req[q])
       /\ AsIfServed(TableAtStart, req[q], req[p])

\* C22 witness: an update that changed the email of customer 1 and a delete
\* of customer 2 both succeeded, each having found its row in the table the
\* other had not yet written.
C22_Witness ==
  \E p, q \in Procs :
    /\ OnlyPair(p, q)
    /\ req[p].kind = "PUT" /\ req[p].id = 1 /\ req[p].status = 200
    /\ req[p].data.email = "grace@example.com"
    /\ req[q].kind = "DELETE" /\ req[q].id = 2 /\ req[q].status = 200
    /\ req[p].existingCustomer \in SeedRows /\ req[q].existingCustomer \in SeedRows
    /\ customers = {req[p].body}

\* C23: in every reachable state every Rental row, of whatever status,
\* references a stored Customer row; no delete, however it interleaves with
\* the Rental writes, removes a customer that a rental points at.
C23_ReferentialIntegrity ==
  \A r \in rentals : \E c \in customers : c.id = r.customerId

\* C23 witness: a DELETE found no ACTIVE rental and called delete, the store
\* refused it because a rental that is not ACTIVE references the customer,
\* and the customer and that rental are stored.
C23_Witness ==
  \E p \in Procs :
    /\ Done(p, "DELETE") /\ req[p].error = P2003 /\ req[p].writes = 1
    /\ ~HasActiveRental(req[p].id)
    /\ \E r \in rentals : r.customerId = req[p].id /\ r.status \in {"COMPLETED", "CANCELLED"}
    /\ req[p].existingCustomer \in customers

\* A field that is missing from the body, or empty.
MissingOrEmpty(v) == v = Undefined \/ v = ""

C25_PutPrecedence ==
  [][\A p \in Procs :
       (Returns(p, "PUT") /\ (req'[p].malformed => isNaN(parseInt(req'[p].param))))
       => LET r == req'[p]
              d == r.data IN
          IF isNaN(parseInt(r.param))
            THEN r.status = 400 /\ r.message = MsgInvalidId
          ELSE IF \/ MissingOrEmpty(d.firstName) \/ MissingOrEmpty(d.lastName)
                  \/ MissingOrEmpty(d.email)
            THEN r.status = 400 /\ r.message = MsgRequired
          ELSE IF ~Exists(r.id)
            THEN r.status = 404 /\ r.message = MsgNotFound
          ELSE IF Holder(d.email) \ {r.id} # {}
            THEN r.status = 400 /\ r.message = MsgOtherEmailExists
            ELSE r.status = 200]_vars

\* C25 witness: a PUT on an id nobody has, carrying an email that a stored
\* customer holds, was answered 404 after its existence check.
C25_Witness ==
  \E p \in Procs :
    /\ Done(p, "PUT") /\ ~Exists(req[p].id)
    /\ Holder(req[p].data.email) # {}
    /\ req[p].status = 404 /\ req[p].message = MsgNotFound
    /\ req[p].calls = 1

\* C26: two concurrent DELETEs of one stored customer that has no rental
\* end, in every interleaving, with exactly one answered {success:true} and
\* the other answered 404 or 500; the row is gone and no other row is.
C26_TwoDeletes ==
  \A p, q \in Procs :
    (/\ OnlyPair(p, q)
     /\ req[p].kind = "DELETE" /\ req[q].kind = "DELETE"
     /\ req[p].id = req[q].id
     /\ \E c \in TableAtStart : c.id = req[p].id)
    => /\ {req[p].status, req[q].status} \in {{200, 404}, {200, 500}}
       /\ \A x \in {p, q} : req[x].status = 200 <=> req[x].body = SuccessBody
       /\ customers = {c \in TableAtStart : c.id # req[p].id}

\* C26 witness: both DELETEs found the row and no active rental; the delete
\* call of one removed it and the delete call of the other threw.
C26_Witness ==
  \E p, q \in Procs :
    /\ OnlyPair(p, q)
    /\ req[p].kind = "DELETE" /\ req[q].kind = "DELETE" /\ req[p].id = req[q].id
    /\ req[p].existingCustomer = req[q].existingCustomer
    /\ req[p].existingCustomer \in SeedRows
    /\ req[p].status = 200 /\ req[p].body = SuccessBody /\ req[p].writes = 1
    /\ req[q].status = 500 /\ req[q].error = P2025 /\ req[q].writes = 1
    /\ ~Exists(req[p].id)

\* C27: when the row of a PUT has been deleted after the PUT's existence
\* check found it, no later step of that PUT adds a row or changes the
\* table: the customer stays absent, the update call is answered 500 and the
\* PUT returns no success.
C27_NoResurrection ==
  [][\A p \in Procs :
       (/\ req[p].kind = "PUT" /\ req[p].pc \in {"findFirst", "update"}
        /\ req'[p] # req[p]
        /\ ~Exists(req[p].id))
       => /\ customers' = customers
          /\ ~Exists(req[p].id)'
          /\ req'[p].pc = "done" => req'[p].status \in {400, 500}
          /\ req[p].pc = "update" => req'[p].pc = "done" /\ req'[p].status = 500]_vars

\* C27 witness: a PUT found its row, a DELETE of that id then succeeded, and
\* the PUT's update call threw: the PUT is answered 500 and no row has the id.
C27_Witness ==
  \E p, q \in Procs :
    /\ Done(p, "PUT") /\ req[p].existingCustomer \in SeedRows
    /\ req[p].existingCustomer.id = req[p].id
    /\ req[p].status = 500 /\ req[p].error = P2025 /\ req[p].calls = 3
    /\ Done(q, "DELETE") /\ req[q].id = req[p].id /\ req[q].status = 200
    /\ ~Exists(req[p].id)

\* C28: a create or update that succeeds stores phone and address as null
\* when they were supplied as the empty string, as when they were omitted,
\* and as supplied otherwise; no stored Customer row holds an empty-string
\* phone or address.
C28_EmptyOptionalIsNull ==
  [][\A p \in Procs :
       /\ \A c \in customers' : c.phone # "" /\ c.address # ""
       /\ ((Returns(p, "POST") \/ Returns(p, "PUT")) /\ req'[p].status \in {200, 201})
          => \E c \in customers' :
               /\ c.id = req'[p].body.id /\ req'[p].body = c
               /\ SameOptionalOrEmpty(req'[p].data.phone, c.phone)
               /\ SameOptionalOrEmpty(req'[p].data.address, c.address)
               /\ req'[p].data.phone = "" => c.phone = Null
               /\ req'[p].data.address = "" => c.address = Null]_vars

\* C28 witness: an update of the customer created last, whose row held
\* neither phone nor address, supplied a phone and the empty string as
\* address and succeeded; the row holds the phone and a null address.
C28_Witness ==
  \E p \in Procs :
    /\ Done(p, "PUT") /\ req[p].status = 200
    /\ req[p].data.phone = "555" /\ req[p].data.address = ""
    /\ req[p].existingCustomer.phone = Null /\ req[p].existingCustomer.address = Null
    /\ req[p].existingCustomer.id = nextId - 1
    /\ \E c \in customers : c.id = req[p].id /\ c.phone = "555" /\ c.address = Null

\* The ids of the rows of a Customer table.
Ids(tbl) == {c.id : c \in tbl}

\* C29: no two Customer rows share an id; the id sequence never goes back
\* and every id ever given out lies below it, so that a create returns an id
\* that no earlier create returned, also when that customer has been
\* deleted; an update returns and writes the row under the id it was asked
\* for and changes the id of no row.
C29_IdsUniqueStable ==
  [][/\ \A c, d \in customers' : c.id = d.id => c = d
     /\ nextId' >= nextId
     /\ \A c \in customers' : c.id < nextId'
     /\ \A p \in Procs :
          /\ (Returns(p, "POST") /\ req'[p].status = 201)
             => /\ req'[p].body.id >= nextId /\ req'[p].body.id < nextId'
                /\ req'[p].body.id \notin Ids(customers)
                /\ Ids(customers') = Ids(customers) \cup {req'[p].body.id}
                /\ \A q \in Procs \ {p} :
                     (Done(q, "POST") /\ req[q].status = 201)
                     => req[q].body.id # req'[p].body.id
          /\ (Returns(p, "PUT") /\ req'[p].status = 200)
             => /\ req'[p].body.id = req'[p].id
                /\ req'[p].body.id = req[p].existingCustomer.id
                /\ Ids(customers') = Ids(customers)]_vars

\* C29 witness: customer 2, the last created, was deleted and a later create
\* returned id 3, not 2; customers 1 and 3 are stored.
C29_Witness ==
  \E p, q \in Procs :
    /\ Done(p, "DELETE") /\ req[p].id = 2 /\ req[p].status = 200
    /\ req[p].existingCustomer \in SeedRows
    /\ Done(q, "POST") /\ req[q].status = 201 /\ req[q].body.id = 3
    /\ req[q].data.email = req[p].existingCustomer.email
    /\ Ids(customers) = {1, 3}

\* C30: in the new-customer and the edit form, while isSubmitting is true the
\* submit button is disabled and no further request is sent; handleSubmit
\* ends with isSubmitting false however the request went; router.push is
\* called only on a response that is ok; and isSubmitting, once true,
\* eventually is false again.
C30_SubmitState ==
  /\ [][/\ form'.isSubmitting => SubmitDisabled'
        /\ form.isSubmitting => issued' = issued
        /\ (form.pc # "idle" /\ form'.pc = "idle") => ~form'.isSubmitting
        /\ (form'.shows = "pushed" /\ form.shows # "pushed")
           => /\ req[form.slot].pc = "done"
              /\ req[form.slot].status \in {200, 201}
              /\ req[form.slot].kind = (IF form.page = "new" THEN "POST" ELSE "PUT")]_vars
  /\ (form.isSubmitting ~> ~form.isSubmitting)

\* C30 witness: a submit of the edit form was answered with an error status;
\* handleSubmit has ended, isSubmitting is false and the form is still shown.
C30_Witness ==
  /\ form.page = "edit" /\ form.shows = "form" /\ form.toast = "Error"
  /\ form.pc = "idle" /\ ~form.isSubmitting
  /\ form.slot \in Procs
  /\ req[form.slot].kind = "PUT" /\ req[form.slot].status = 400

====
